---- MODULE Spec2Model ----
(***************************************************************************)
(* Model of the Pub/Sub soak-test scripts (static-token variant             *)
(* src/pubsub-pub-test.js, metadata-token variant src/unnamed/part_001)     *)
(* running under the constant-arrival-rate executor their options select.   *)
(*                                                                          *)
(* The scripts are run by the load-test runtime: the init context computes  *)
(* `options`, setup() runs once, the executor starts one iteration of the   *)
(* default function per tick on an idle virtual user (VU), and teardown()   *)
(* runs once at the end.  An iteration blocks only in its network calls;    *)
(* VUs run in parallel, each metric add is atomic.                          *)
(***************************************************************************)
EXTENDS Integers, Sequences, FiniteSets, TLC

\* ---------------------------------------------------------------- bounds
\* Largest TARGET_RPS, BATCH_SIZE, MIN_VUS, TEST_DURATION (seconds) of a run.
MaxRate == 3
MaxBatch == 2
MaxMinVus == 2
MaxDuration == 2
\* Largest number of ticks (TARGET_RPS * TEST_DURATION) of a run.
MaxTicks == 4
\* Largest environment value of the sizing specification, and the number of
\* times the init context is evaluated in it.
MaxEnv == 6
MaxEvals == 3

\* ------------------------------------------------------ program constants
DefaultTargetRps == 15000
DefaultBatchSize == 10
DefaultMinVus == 500

VARIABLES
    env,              \* __ENV: the raw configuration of the run
    phase,            \* "init", "aborted", "setup", "run", "teardown", "done"
    options,          \* the exported options (pool sizing) of the init context
    evals,            \* number of evaluations of the init context
    setupData,        \* what setup() returned, <<>> before it
    setupProbe,       \* status of setup's probe of the topic, <<>> if none
    allocated,        \* VUs the executor has initialised
    ticks,            \* iteration starts that have come due
    started,          \* iterations started
    inflight,         \* running iterations, by the place they are at
    pubSuccessRate,   \* Rate: [trues, total]
    pubLatency,       \* Trend: latency sample -> number of samples
    failedPublishes,  \* Counter
    messagesSent,     \* Counter
    messageBytes,     \* Trend: number of samples
    currentRPS,       \* Rate: [trues, total]
    tokenFetches,     \* GET requests to the metadata service
    publishCalls,     \* POST requests to the topic
    history,          \* responses received so far, by kind
    interrupted,      \* iterations cut off when the graceful stop ran out
    bearers,          \* the tokens sent in Authorization headers so far
    summary,          \* what teardown() has read of each metric, <<>> if unread
    transport,        \* delays of the answered publish calls -> how many
    generated,        \* calls of generateMessage()
    lastBatch,        \* the messages of the latest publish call
    figures,          \* the figures of the printed summary
    report            \* what teardown() printed, or "TypeError" if it threw

vars == <<env, phase, options, evals, setupData, setupProbe, allocated, ticks,
          started, inflight, pubSuccessRate, pubLatency, failedPublishes,
          messagesSent, messageBytes, currentRPS, tokenFetches, publishCalls,
          history, interrupted, bearers, summary, transport, generated,
          lastBatch, figures, report>>

metricVars == <<pubSuccessRate, pubLatency, failedPublishes, messagesSent,
                messageBytes, currentRPS>>

\* ---------------------------------------------------------------- helpers
Max(a, b) == IF a >= b THEN a ELSE b

\* Math.ceil(a / b) for integers a and b # 0.
Ceil(a, b) == IF b > 0 THEN -((-a) \div b) ELSE -(a \div (-b))

\* parseInt(__ENV.X) || dflt: an unset or non-numeric variable parses to NaN,
\* and NaN and 0 are falsy.  <<>> is NaN, <<n>> the integer n.
ParseIntOr(raw, dflt) == IF raw = <<>> \/ raw[1] = 0 THEN dflt ELSE raw[1]

TARGET_RPS == ParseIntOr(env.TARGET_RPS, DefaultTargetRps)
BATCH_SIZE == ParseIntOr(env.BATCH_SIZE, DefaultBatchSize)
MIN_VUS == ParseIntOr(env.MIN_VUS, DefaultMinVus)
\* TEST_DURATION, in seconds.
TEST_DURATION == env.TEST_DURATION

\* ----------------------------------------------------------------- options
\* The factor 2 applied to the rate, not to the batch size.
preAllocatedVUs_Scaled == Max(MIN_VUS, Ceil(TARGET_RPS * 2, BATCH_SIZE))

preAllocatedVUs == Max(MIN_VUS, Ceil(TARGET_RPS, BATCH_SIZE * 2))

\* MIN_VUS taken once, not twice.
maxVUs_NoDouble == Max(MIN_VUS, Ceil(TARGET_RPS, BATCH_SIZE))

maxVUs == Max(MIN_VUS * 2, Ceil(TARGET_RPS, BATCH_SIZE))

Options == [preAllocatedVUs |-> preAllocatedVUs, maxVUs |-> maxVUs]

\* The rate read as messages per second: one iteration per batch.
TotalTicks_PerMessage == Ceil(TARGET_RPS, BATCH_SIZE) * TEST_DURATION

\* rate iterations per timeUnit (1s) for duration.
TotalTicks == TARGET_RPS * TEST_DURATION

\* ----------------------------------------------------------------- metrics
\* A rate that keeps the current run of truthy observations: a falsy one
\* clears it, so the result depends on the order of the observations.
RateAdd_Streak(r, truthy) ==
    [trues |-> (IF truthy THEN r.trues + 1 ELSE 0), total |-> r.total + 1]

\* Rate.add(v): one observation, true when v is truthy.
RateAdd(r, truthy) ==
    [trues |-> r.trues + (IF truthy THEN 1 ELSE 0), total |-> r.total + 1]

\* Trend.add(v)
TrendAdd(t, v) ==
    IF v \in DOMAIN t THEN [t EXCEPT ![v] = @ + 1]
    ELSE [w \in DOMAIN t \cup {v} |-> IF w = v THEN 1 ELSE t[w]]

TransportDelays == {5, 20}

\* Readings of new Date().getTime() just before a publish call, in ms.
ClockReadings == {0, 1000}

\* The two readings the wrong way round.
Latency_Reversed(startTime, endTime) == startTime - endTime

\* endTime - startTime
Latency(startTime, endTime) == endTime - startTime

\* The object generateMessage() returns on its n-th call (its uuid fields
\* differ from call to call), JSON.stringify and encoding.b64encode.
Message(n) == [id |-> n, push_type |-> "system"]

JsonStringify(message) == <<"json", message>>

B64Encode(text) == <<"b64", text>>

NoRate == [trues |-> 0, total |-> 0]

\* ------------------------------------------------------------ the requests
\* Responses of the topic to a publish call or a probe (status 0: the
\* request itself failed).
Statuses == {0, 200, 403}
Bodies == {"garbage", "null", "error_object", "ids_empty", "ids_one"}
PublishResponses == [status : Statuses, body : Bodies]

\* Responses of the metadata service to a token request (status 0: the
\* request itself failed).
TokenBodies == {"garbage", "no_token", "token"}
TokenResponses == [status : {0, 200, 404}, body : TokenBodies]

\* JSON.parse of a response body: ok = FALSE when it throws.
JsonParse(body) ==
    CASE body = "garbage" -> [ok |-> FALSE]
      [] body = "null" -> [ok |-> TRUE, isNull |-> TRUE]
      [] body = "error_object" ->
            [ok |-> TRUE, isNull |-> FALSE, hasIds |-> FALSE, hasToken |-> FALSE]
      [] body = "no_token" ->
            [ok |-> TRUE, isNull |-> FALSE, hasIds |-> FALSE, hasToken |-> FALSE]
      [] body = "ids_empty" ->
            [ok |-> TRUE, isNull |-> FALSE, hasIds |-> TRUE, messageIds |-> <<>>,
             hasToken |-> FALSE]
      [] body = "ids_one" ->
            [ok |-> TRUE, isNull |-> FALSE, hasIds |-> TRUE,
             messageIds |-> <<"m1">>, hasToken |-> FALSE]
      [] body = "token" ->
            [ok |-> TRUE, isNull |-> FALSE, hasIds |-> FALSE, hasToken |-> TRUE,
             access_token |-> "fetched"]

\* 'status is 200'
StatusIs200(r) == r.status = 200

\* 'message published successfully': a body that does not parse, or null
\* (reading a property of null throws), lands in the catch.
MessagePublished(r) ==
    LET body == JsonParse(r.body) IN
    IF ~body.ok THEN FALSE
    ELSE IF body.isNull THEN FALSE
    ELSE IF ~body.hasIds THEN FALSE
    ELSE Len(body.messageIds) > 0

\* The status check alone.
Check_StatusOnly(r) == StatusIs200(r)

\* check(response, {...}): true when every check passes.
Check(r) == StatusIs200(r) /\ MessagePublished(r)

\* The token of the body whatever the status.
getAccessToken_AnyStatus(resp) ==
    IF resp.body = "token" THEN <<"fetched">> ELSE <<>>

\* getAccessToken(): <<>> is null/undefined, <<t>> the token t.
getAccessToken(resp) ==
    IF resp.status = 200
    THEN LET tokenData == JsonParse(resp.body) IN
         IF ~tokenData.ok THEN <<>>
         ELSE IF tokenData.isNull THEN <<>>
         ELSE IF tokenData.hasToken THEN <<tokenData.access_token>>
         ELSE <<>>
    ELSE <<>>

\* getAccessToken() is called whether or not TOKEN is set.
NeedsFetch_IgnoresOverride == env.variant = "dynamic"

\* __ENV.TOKEN || getAccessToken(), and the static variant's GCLOUD_AUTH_TOKEN.
NeedsFetch == env.variant = "dynamic" /\ env.TOKEN = <<>>

AccessToken(resp) ==
    IF env.variant = "static" THEN env.GCLOUD_AUTH_TOKEN
    ELSE IF env.TOKEN # <<>> THEN env.TOKEN
    ELSE getAccessToken(resp)

\* ------------------------------------------------------------------- state
Places == {"token", "post", "countT", "countF"}

NoneInFlight == [p \in Places |-> 0]

InFlight == inflight["token"] + inflight["post"] + inflight["countT"]
            + inflight["countF"]

\* What the servers have answered, told apart without the scripts' code: a
\* token response that carries a token or not, a publish response that
\* accepts the batch (200 and a non-empty list of message ids), a 200 whose
\* body does not (it does not parse, has no list or an empty one), a
\* response that is not 200 and carries a list, any other.
Kinds == {"tokenGranted", "tokenDenied", "accepted", "badBody200",
          "listNon200", "otherRejected"}

TokenKind(resp) ==
    IF resp.status = 200 /\ resp.body = "token" THEN "tokenGranted"
    ELSE "tokenDenied"

PublishKind(resp) ==
    IF resp.status = 200
    THEN (IF resp.body = "ids_one" THEN "accepted" ELSE "badBody200")
    ELSE (IF resp.body = "ids_one" THEN "listNon200" ELSE "otherRejected")

Rejected == history["badBody200"] + history["listNon200"]
            + history["otherRejected"]

Enter(place) == [inflight EXCEPT ![place] = @ + 1]

Move(from, to) == [inflight EXCEPT ![from] = @ - 1, ![to] = @ + 1]

Leave(place) == [inflight EXCEPT ![place] = @ - 1]

Decided(kind) == [history EXCEPT ![kind] = @ + 1]

\* A single message, whatever the batch size.
Batch_Single(message) ==
    <<[data |-> B64Encode(JsonStringify(message)),
       attributes |-> [test_type |-> "soak_test"]]>>

\* Array(BATCH_SIZE).fill(null).map(() => ({data: messageData, attributes}))
Batch(message) ==
    [i \in 1..BATCH_SIZE |->
        [data |-> B64Encode(JsonStringify(message)),
         attributes |-> [test_type |-> "soak_test"]]]

\* `Bearer ${token}`: a missing token is sent as the text "undefined".
Bearer(token) == IF token = <<>> THEN "undefined" ELSE token[1]

\* The statistics of the summary, in the order teardown() reads them.
Statistics == {"currentRPS", "messagesSent", "failedPublishes",
               "pubSuccessRate", "avgLatency", "p95Latency"}

TeardownReads ==
    IF env.variant = "static"
    THEN <<"currentRPS", "messagesSent", "failedPublishes", "pubSuccessRate",
           "avgLatency", "p95Latency">>
    ELSE <<"currentRPS", "pubSuccessRate", "avgLatency", "p95Latency",
           "messagesSent", "failedPublishes">>

NoSummary == [s \in Statistics |-> <<>>]

\* A figure of the printed summary: its kind ("fixed": a toFixed(2) text,
\* v its value in hundredths; "int": an integer v; "number": a number whose
\* digits are the runtime's; "N/A", "NaN", "undefined": that text;
\* "TypeError": the expression threw) and its value.
Fig(k, v) == [k |-> k, v |-> v]

FigureNames == Statistics \cup {"goalAchievement"}

NoFigures == [f \in FigureNames |-> Fig("", 0)]

InitRest ==
    /\ phase = "init"
    /\ options = [preAllocatedVUs |-> 0, maxVUs |-> 0]
    /\ evals = 0
    /\ setupData = <<>>
    /\ setupProbe = <<>>
    /\ allocated = 0
    /\ ticks = 0
    /\ started = 0
    /\ inflight = NoneInFlight
    /\ pubSuccessRate = NoRate
    /\ pubLatency = [d \in TransportDelays |-> 0]
    /\ failedPublishes = 0
    /\ messagesSent = 0
    /\ messageBytes = 0
    /\ currentRPS = NoRate
    /\ tokenFetches = 0
    /\ publishCalls = 0
    /\ history = [k \in Kinds |-> 0]
    /\ interrupted = 0
    /\ bearers = {}
    /\ summary = NoSummary
    /\ transport = [d \in TransportDelays |-> 0]
    /\ generated = 0
    /\ lastBatch = <<>>
    /\ figures = NoFigures
    /\ report = ""

\* The credential sources of a run: the static variant with and without its
\* token, the dynamic variant with and without the TOKEN override.  The
\* override is the same token as the static one.
GcloudToken == "ya29"

Credentials ==
    { [variant |-> "static", GCLOUD_AUTH_TOKEN |-> <<GcloudToken>>,
       TOKEN |-> <<>>],
      [variant |-> "static", GCLOUD_AUTH_TOKEN |-> <<>>, TOKEN |-> <<>>],
      [variant |-> "dynamic", GCLOUD_AUTH_TOKEN |-> <<>>,
       TOKEN |-> <<GcloudToken>>],
      [variant |-> "dynamic", GCLOUD_AUTH_TOKEN |-> <<>>, TOKEN |-> <<>>] }

EnvOf(c, r, b, m, d) ==
    [variant |-> c.variant, GCLOUD_AUTH_TOKEN |-> c.GCLOUD_AUTH_TOKEN,
     TOKEN |-> c.TOKEN, TARGET_RPS |-> r, BATCH_SIZE |-> b, MIN_VUS |-> m,
     TEST_DURATION |-> d, RAMP_DURATION |-> <<>>]

Init ==
    /\ \E c \in Credentials, r \in 1..MaxRate, b \in 1..MaxBatch,
          m \in 1..MaxMinVus, d \in 1..MaxDuration :
          /\ r * d <= MaxTicks
          /\ env = EnvOf(c, <<r>>, <<b>>, <<m>>, d)
    /\ InitRest

\* ----------------------------------------------------------------- actions
\* The token is never validated.
TokenMissing_Unchecked == FALSE

\* if (!GCLOUD_AUTH_TOKEN), in the static variant's init context.
TokenMissing == env.variant = "static" /\ env.GCLOUD_AUTH_TOKEN = <<>>

\* exec.test.abort() in the init context: the run ends before setup().
InitAbort ==
    /\ phase = "init"
    /\ TokenMissing
    /\ phase' = "aborted"
    /\ UNCHANGED <<env, options, evals, setupData, setupProbe, allocated,
                   ticks, started, inflight, metricVars, tokenFetches,
                   publishCalls, history, interrupted, bearers, summary,
                   report, transport, generated, lastBatch, figures>>

\* The init context: the module-level code, which computes options.
InitContext ==
    /\ phase = "init"
    /\ ~TokenMissing
    /\ options' = Options
    /\ evals' = evals + 1
    /\ phase' = "setup"
    /\ UNCHANGED <<env, setupData, setupProbe, allocated, ticks, started,
                   inflight, metricVars, tokenFetches, publishCalls, history,
                   interrupted, bearers, summary, report, transport,
                   generated, lastBatch, figures>>

\* Every VU evaluates the init context again when it is initialised.
VuInitContext ==
    /\ phase = "setup"
    /\ evals < MaxEvals
    /\ options' = Options
    /\ evals' = evals + 1
    /\ UNCHANGED <<env, phase, setupData, setupProbe, allocated, ticks,
                   started, inflight, metricVars, tokenFetches, publishCalls,
                   history, interrupted, bearers, summary, report, transport,
                   generated, lastBatch, figures>>

\* The dynamic variant's setup() returns without probing the topic.
SetupResult_DynamicNoProbe(tokenResp, probeResp) ==
    IF env.variant = "dynamic"
    THEN [data |-> [connectionSuccessful |-> FALSE], probe |-> <<>>]
    ELSE [data |-> [connectionSuccessful |-> (probeResp.status = 200)],
          probe |-> <<probeResp.status>>]

\* setup(): acquire a token (dynamic variant), probe the topic, return the
\* connection status.  Nothing reads the status but teardown().
SetupResult(tokenResp, probeResp) ==
    IF env.variant = "dynamic" /\ AccessToken(tokenResp) = <<>>
    THEN [data |-> [connectionSuccessful |-> FALSE], probe |-> <<>>]
    ELSE [data |-> [connectionSuccessful |-> (probeResp.status = 200)],
          probe |-> <<probeResp.status>>]

Setup(tokenResp, probeResp) ==
    /\ phase = "setup"
    /\ setupData' = <<SetupResult(tokenResp, probeResp).data>>
    /\ setupProbe' = SetupResult(tokenResp, probeResp).probe
    /\ tokenFetches' = tokenFetches + (IF NeedsFetch THEN 1 ELSE 0)
    /\ history' = IF NeedsFetch THEN Decided(TokenKind(tokenResp)) ELSE history
    /\ bearers' = IF SetupResult(tokenResp, probeResp).probe = <<>> THEN bearers
                   ELSE bearers \cup {Bearer(AccessToken(tokenResp))}
    /\ allocated' = options.preAllocatedVUs
    /\ phase' = "run"
    /\ UNCHANGED <<env, options, evals, ticks, started, inflight, metricVars,
                   publishCalls, interrupted, summary, report, transport,
                   generated, lastBatch, figures>>

\* A pool with no upper limit.
VuAvailable_Unbounded == TRUE

\* A VU is free to take the iteration that has come due.
VuAvailable == InFlight < allocated

\* The executor starts the iteration on a free VU: the default function runs
\* to its first network call.
Dispatch ==
    /\ phase = "run"
    /\ ticks < TotalTicks
    /\ VuAvailable
    /\ ticks' = ticks + 1
    /\ started' = started + 1
    /\ generated' = generated + 1
    /\ IF NeedsFetch
       THEN /\ inflight' = Enter("token")
            /\ tokenFetches' = tokenFetches + 1
            /\ UNCHANGED <<messageBytes, publishCalls, bearers, lastBatch>>
       ELSE /\ inflight' = Enter("post")
            /\ messageBytes' = messageBytes + 1
            /\ publishCalls' = publishCalls + 1
            /\ lastBatch' = Batch(Message(publishCalls + 1))
            /\ bearers' = bearers \cup {Bearer(AccessToken(<<>>))}
            /\ UNCHANGED tokenFetches
    /\ UNCHANGED <<env, phase, options, evals, setupData, setupProbe,
                   allocated, pubSuccessRate, pubLatency, failedPublishes,
                   messagesSent, currentRPS, history, interrupted, summary,
                   report, transport, figures>>

\* No VU is free: the iteration is not started, and the executor initialises
\* one more VU while it has fewer than maxVUs.
DropTick ==
    /\ phase = "run"
    /\ ticks < TotalTicks
    /\ ~VuAvailable
    /\ ticks' = ticks + 1
    /\ allocated' = IF allocated < options.maxVUs THEN allocated + 1 ELSE allocated
    /\ UNCHANGED <<env, phase, options, evals, setupData, setupProbe, started,
                   inflight, metricVars, tokenFetches, publishCalls, history,
                   interrupted, bearers, summary, report, transport,
                   generated, lastBatch, figures>>

\* A denied token request is issued again instead of being given up.
TokenResponse_Retry(resp) ==
    /\ inflight["token"] > 0
    /\ history' = Decided(TokenKind(resp))
    /\ IF getAccessToken(resp) = <<>>
       THEN /\ tokenFetches' = tokenFetches + 1
            /\ UNCHANGED <<inflight, failedPublishes, messageBytes,
                           publishCalls, bearers, lastBatch>>
       ELSE /\ inflight' = Move("token", "post")
            /\ messageBytes' = messageBytes + 1
            /\ publishCalls' = publishCalls + 1
            /\ lastBatch' = Batch(Message(publishCalls + 1))
            /\ bearers' = bearers \cup {Bearer(getAccessToken(resp))}
            /\ UNCHANGED <<failedPublishes, tokenFetches>>
    /\ UNCHANGED <<env, phase, options, evals, setupData, setupProbe,
                   allocated, ticks, started, pubSuccessRate, pubLatency,
                   messagesSent, currentRPS, interrupted, summary, report,
                   transport, generated, figures>>

\* The metadata service answers an iteration's token request.
TokenResponse(resp) ==
    /\ inflight["token"] > 0
    /\ history' = Decided(TokenKind(resp))
    /\ IF getAccessToken(resp) = <<>>
       THEN /\ failedPublishes' = failedPublishes + 1
            /\ inflight' = Leave("token")
            /\ UNCHANGED <<messageBytes, publishCalls, bearers, lastBatch>>
       ELSE /\ inflight' = Move("token", "post")
            /\ messageBytes' = messageBytes + 1
            /\ publishCalls' = publishCalls + 1
            /\ lastBatch' = Batch(Message(publishCalls + 1))
            /\ bearers' = bearers \cup {Bearer(getAccessToken(resp))}
            /\ UNCHANGED failedPublishes
    /\ UNCHANGED <<env, phase, options, evals, setupData, setupProbe,
                   allocated, ticks, started, pubSuccessRate, pubLatency,
                   messagesSent, currentRPS, tokenFetches, interrupted,
                   summary, report, transport, generated, figures>>

\* The topic answers a publish call, made at clock reading startTime, after
\* `delay` ms: the latency sample, the checks and the success-rate
\* observation.
PublishResponse(resp, delay, startTime) ==
    /\ inflight["post"] > 0
    /\ transport' = TrendAdd(transport, delay)
    /\ pubLatency' = TrendAdd(pubLatency, Latency(startTime, startTime + delay))
    /\ pubSuccessRate' = RateAdd(pubSuccessRate, Check(resp))
    /\ inflight' = Move("post", IF Check(resp) THEN "countT" ELSE "countF")
    /\ history' = Decided(PublishKind(resp))
    /\ UNCHANGED <<env, phase, options, evals, setupData, setupProbe,
                   allocated, ticks, started, failedPublishes, messagesSent,
                   messageBytes, currentRPS, tokenFetches, publishCalls,
                   interrupted, bearers, summary, report, generated,
                   lastBatch, figures>>

\* The batch is taken off the counter: add(-BATCH_SIZE).
SuccessSent_Negated == messagesSent - BATCH_SIZE

\* One per publish call, not one per message.
SuccessSent_PerCall == messagesSent + 1

\* if (success) { messagesSent.add(BATCH_SIZE); currentRPS.add(BATCH_SIZE); }
SuccessSent == messagesSent + BATCH_SIZE

\* The failure counter is updated on the success path as well.
RecordSuccess_CountsBoth ==
    /\ inflight["countT"] > 0
    /\ messagesSent' = SuccessSent
    /\ failedPublishes' = failedPublishes + 1
    /\ currentRPS' = RateAdd(currentRPS, BATCH_SIZE # 0)
    /\ inflight' = Leave("countT")
    /\ UNCHANGED <<env, phase, options, evals, setupData, setupProbe,
                   allocated, ticks, started, pubSuccessRate, pubLatency,
                   messageBytes, tokenFetches, publishCalls, history,
                   interrupted, bearers, summary, report, transport,
                   generated, lastBatch, figures>>

RecordSuccess ==
    /\ inflight["countT"] > 0
    /\ messagesSent' = SuccessSent
    /\ currentRPS' = RateAdd(currentRPS, BATCH_SIZE # 0)
    /\ inflight' = Leave("countT")
    /\ UNCHANGED <<env, phase, options, evals, setupData, setupProbe,
                   allocated, ticks, started, pubSuccessRate, pubLatency,
                   failedPublishes, messageBytes, tokenFetches, publishCalls,
                   history, interrupted, bearers, summary, report, transport,
                   generated, lastBatch, figures>>

\* A failed publish ends the whole run.
RecordFailure_Aborts ==
    /\ inflight["countF"] > 0
    /\ failedPublishes' = failedPublishes + 1
    /\ inflight' = Leave("countF")
    /\ phase' = "aborted"
    /\ UNCHANGED <<env, options, evals, setupData, setupProbe, allocated,
                   ticks, started, pubSuccessRate, pubLatency, messagesSent,
                   messageBytes, currentRPS, tokenFetches, publishCalls,
                   history, interrupted, bearers, summary, report, transport,
                   generated, lastBatch, figures>>

\* The failure path observes the achieved rate too: currentRPS.add(0).
RecordFailure_ObservesRps ==
    /\ inflight["countF"] > 0
    /\ failedPublishes' = failedPublishes + 1
    /\ currentRPS' = RateAdd(currentRPS, FALSE)
    /\ inflight' = Leave("countF")
    /\ UNCHANGED <<env, phase, options, evals, setupData, setupProbe,
                   allocated, ticks, started, pubSuccessRate, pubLatency,
                   messagesSent, messageBytes, tokenFetches, publishCalls,
                   history, interrupted, bearers, summary, report, transport,
                   generated, lastBatch, figures>>

\* else { failedPublishes.add(1); }
RecordFailure ==
    /\ inflight["countF"] > 0
    /\ failedPublishes' = failedPublishes + 1
    /\ inflight' = Leave("countF")
    /\ UNCHANGED <<env, phase, options, evals, setupData, setupProbe,
                   allocated, ticks, started, pubSuccessRate, pubLatency,
                   messagesSent, messageBytes, currentRPS, tokenFetches,
                   publishCalls, history, interrupted, bearers, summary,
                   report, transport, generated, lastBatch, figures>>

\* The duration is over and the graceful stop runs out: the iterations still
\* blocked in a network call are cut off where they are.
GracefulStop ==
    /\ phase = "run"
    /\ ticks = TotalTicks
    /\ inflight["countT"] = 0 /\ inflight["countF"] = 0
    /\ InFlight > 0
    /\ interrupted' = interrupted + InFlight
    /\ inflight' = NoneInFlight
    /\ UNCHANGED <<env, phase, options, evals, setupData, setupProbe,
                   allocated, ticks, started, metricVars, tokenFetches,
                   publishCalls, history, bearers, summary, report, transport,
                   generated, lastBatch, figures>>

\* The duration is over, whatever is still in flight.
RunEnded_DurationOnly == ticks = TotalTicks

\* The scenario has ended: the duration is over and every iteration has
\* finished or has been cut off by the graceful stop.
RunEnded == ticks = TotalTicks /\ InFlight = 0

\* The runtime calls teardown(data) with what setup() returned.
TeardownStart ==
    /\ phase = "run"
    /\ RunEnded
    /\ phase' = "teardown"
    /\ UNCHANGED <<env, options, evals, setupData, setupProbe, allocated,
                   ticks, started, inflight, metricVars, tokenFetches,
                   publishCalls, history, interrupted, bearers, summary,
                   report, transport, generated, lastBatch, figures>>

\* The aggregate a statistic of the summary is read from.
ReadMetric(stat) ==
    CASE stat = "currentRPS" -> currentRPS
      [] stat = "messagesSent" -> messagesSent
      [] stat = "failedPublishes" -> failedPublishes
      [] stat = "pubSuccessRate" -> pubSuccessRate
      [] stat = "avgLatency" -> pubLatency
      [] stat = "p95Latency" -> pubLatency

Unread == {i \in 1..Len(TeardownReads) : summary[TeardownReads[i]] = <<>>}

NextRead == TeardownReads[CHOOSE i \in Unread : \A j \in Unread : i <= j]

\* Reading the metrics clears the failure counter.
TeardownRead_Clearing ==
    /\ phase = "teardown"
    /\ setupData[1].connectionSuccessful
    /\ Unread # {}
    /\ summary' = [summary EXCEPT ![NextRead] = <<ReadMetric(NextRead)>>]
    /\ failedPublishes' = 0
    /\ UNCHANGED <<env, phase, options, evals, setupData, setupProbe,
                   allocated, ticks, started, inflight, pubSuccessRate,
                   pubLatency, messagesSent, messageBytes, currentRPS,
                   tokenFetches, publishCalls, history, interrupted, bearers,
                   report, transport, generated, lastBatch, figures>>

\* teardown(data), connection successful: the metrics are read one after
\* the other.
TeardownRead ==
    /\ phase = "teardown"
    /\ setupData[1].connectionSuccessful
    /\ Unread # {}
    /\ summary' = [summary EXCEPT ![NextRead] = <<ReadMetric(NextRead)>>]
    /\ UNCHANGED <<env, phase, options, evals, setupData, setupProbe,
                   allocated, ticks, started, inflight, metricVars,
                   tokenFetches, publishCalls, history, interrupted, bearers,
                   report, transport, generated, lastBatch, figures>>

\* What a property of a metric object (value, avg, the result of p(95))
\* yields inside teardown(): undefined, NaN, or the number n/d.
Undefined == [k |-> "undefined", n |-> 0, d |-> 1]

NotANumber == [k |-> "NaN", n |-> 0, d |-> 1]

Number(n, d) == [k |-> "num", n |-> n, d |-> d]

\* The percentile of a Trend with samples: the runtime computes it.
Percentile == [k |-> "percentile", n |-> 0, d |-> 1]

\* The scripts read the aggregates off the metric objects, which belong to
\* the runtime: either the objects do not have these properties ("hidden":
\* every read is undefined and p is not a function; the dynamic script's
\* checks are there for this) or they have them ("exposed").
MetricApis == {"hidden", "exposed"}

\* What an exposed Rate or Trend without any sample yields.
EmptyValues == {"undefined", "NaN", "zero"}

EmptyValue(e) ==
    CASE e = "undefined" -> Undefined
      [] e = "NaN" -> NotANumber
      [] e = "zero" -> Number(0, 1)

RECURSIVE TrendCount(_, _)
TrendCount(t, S) ==
    IF S = {} THEN 0
    ELSE LET v == CHOOSE x \in S : TRUE IN t[v] + TrendCount(t, S \ {v})

RECURSIVE TrendSum(_, _)
TrendSum(t, S) ==
    IF S = {} THEN 0
    ELSE LET v == CHOOSE x \in S : TRUE IN v * t[v] + TrendSum(t, S \ {v})

\* currentRPS.value, messagesSent.value, failedPublishes.value,
\* pubSuccessRate.value, pubLatency.avg, pubLatency.p(95)
PropertyOf(stat, api, e) ==
    LET m == summary[stat][1] IN
    IF api = "hidden" THEN Undefined
    ELSE CASE stat \in {"currentRPS", "pubSuccessRate"} ->
                 IF m.total = 0 THEN EmptyValue(e) ELSE Number(m.trues, m.total)
           [] stat \in {"messagesSent", "failedPublishes"} -> Number(m, 1)
           [] stat = "avgLatency" ->
                 IF TrendCount(m, DOMAIN m) = 0 THEN EmptyValue(e)
                 ELSE Number(TrendSum(m, DOMAIN m), TrendCount(m, DOMAIN m))
           [] stat = "p95Latency" ->
                 IF TrendCount(m, DOMAIN m) = 0 THEN EmptyValue(e)
                 ELSE Percentile

\* (n/d).toFixed(2) for n >= 0 and d > 0, in hundredths.
ToFixed(n, d) == Fig("fixed", (200 * n + d) \div (2 * d))

\* x.toFixed(2) of a number read off a metric.
Fixed(x) ==
    CASE x.k = "num" -> ToFixed(x.n, x.d)
      [] x.k = "percentile" -> Fig("number", 0)
      [] x.k = "NaN" -> Fig("NaN", 0)
      [] x.k = "undefined" -> Fig("TypeError", 0)

\* (x * (mulN/mulD)).toFixed(2): undefined times a number is NaN.
ScaledFixed(x, mulN, mulD) ==
    IF x.k = "num" THEN ToFixed(x.n * mulN, x.d * mulD) ELSE Fig("NaN", 0)

\* ${counter.value}
Interpolated(x) == IF x.k = "num" THEN Fig("int", x.n) ELSE Fig(x.k, 0)

\* The static script's template literal: no check of what is read.
StaticFigure(f, api, e) ==
    CASE f = "currentRPS" -> ScaledFixed(PropertyOf("currentRPS", api, e), 1000, 1)
      [] f = "goalAchievement" ->
            ScaledFixed(PropertyOf("currentRPS", api, e), 100000, TARGET_RPS)
      [] f = "messagesSent" -> Interpolated(PropertyOf("messagesSent", api, e))
      [] f = "failedPublishes" ->
            Interpolated(PropertyOf("failedPublishes", api, e))
      [] f = "pubSuccessRate" ->
            ScaledFixed(PropertyOf("pubSuccessRate", api, e), 100, 1)
      [] f = "avgLatency" -> Fixed(PropertyOf("avgLatency", api, e))
      [] f = "p95Latency" ->
            IF api = "hidden" THEN Fig("TypeError", 0)
            ELSE Fixed(PropertyOf("p95Latency", api, e))

\* The literals the dynamic script prints for a value that is missing.
ZeroFixed == Fig("fixed", 0)

NotAvailable == Fig("N/A", 0)

\* The dynamic script's constants, each behind its check for undefined.
DynamicFigure(f, api, e) ==
    CASE f = "currentRPS" ->
            IF PropertyOf("currentRPS", api, e).k = "undefined" THEN ZeroFixed
            ELSE ScaledFixed(PropertyOf("currentRPS", api, e), 1000, 1)
      [] f = "goalAchievement" ->
            IF PropertyOf("currentRPS", api, e).k = "undefined" THEN ZeroFixed
            ELSE ScaledFixed(PropertyOf("currentRPS", api, e), 100000,
                             TARGET_RPS)
      [] f = "pubSuccessRate" ->
            IF PropertyOf("pubSuccessRate", api, e).k = "undefined"
            THEN ZeroFixed
            ELSE ScaledFixed(PropertyOf("pubSuccessRate", api, e), 100, 1)
      [] f = "avgLatency" ->
            IF PropertyOf("avgLatency", api, e).k = "undefined"
            THEN NotAvailable
            ELSE Fixed(PropertyOf("avgLatency", api, e))
      [] f = "p95Latency" ->
            IF api = "hidden" THEN NotAvailable
            ELSE IF PropertyOf("p95Latency", api, e).k = "undefined"
            THEN NotAvailable
            ELSE Fixed(PropertyOf("p95Latency", api, e))
      [] f = "messagesSent" ->
            IF PropertyOf("messagesSent", api, e).k = "undefined"
            THEN Fig("int", 0)
            ELSE Interpolated(PropertyOf("messagesSent", api, e))
      [] f = "failedPublishes" ->
            IF PropertyOf("failedPublishes", api, e).k = "undefined"
            THEN Fig("int", 0)
            ELSE Interpolated(PropertyOf("failedPublishes", api, e))

SummaryFigures(api, e) ==
    [f \in FigureNames |->
        IF env.variant = "static" THEN StaticFigure(f, api, e)
        ELSE DynamicFigure(f, api, e)]

\* Evaluating the summary throws: nothing is printed.
Raises(api, e) ==
    \E f \in FigureNames : SummaryFigures(api, e)[f].k = "TypeError"

TeardownReport(api, e) ==
    IF ~setupData[1].connectionSuccessful THEN "connection_issues"
    ELSE IF Raises(api, e) THEN "TypeError"
    ELSE "summary"

\* teardown(data): the console.log of either branch, with what the metric
\* objects yield under the runtime's api.
Teardown(api, e) ==
    /\ phase = "teardown"
    /\ setupData[1].connectionSuccessful => Unread = {}
    /\ report' = TeardownReport(api, e)
    /\ figures' = IF TeardownReport(api, e) = "summary"
                   THEN SummaryFigures(api, e) ELSE figures
    /\ phase' = "done"
    /\ UNCHANGED <<env, options, evals, setupData, setupProbe, allocated,
                   ticks, started, inflight, metricVars, tokenFetches,
                   publishCalls, history, interrupted, bearers, summary,
                   transport, generated, lastBatch>>

Next ==
    \/ InitContext
    \/ InitAbort
    \/ \E t \in TokenResponses, p \in PublishResponses : Setup(t, p)
    \/ Dispatch
    \/ DropTick
    \/ \E t \in TokenResponses : TokenResponse(t)
    \/ \E p \in PublishResponses, d \in TransportDelays, t \in ClockReadings :
          PublishResponse(p, d, t)
    \/ RecordSuccess
    \/ RecordFailure
    \/ GracefulStop
    \/ TeardownStart
    \/ TeardownRead
    \/ \E api \in MetricApis, e \in EmptyValues : Teardown(api, e)

Spec == Init /\ [][Next]_vars

\* -------------------------------------------- the sizing, on its own
\* The init context over the whole range of the environment: unset, zero,
\* negative and positive values of TARGET_RPS, BATCH_SIZE and MIN_VUS.
EnvValues == {<<>>} \cup {<<n>> : n \in -1..MaxEnv}

SizingInit ==
    /\ \E r \in EnvValues, b \in EnvValues, m \in EnvValues :
          env = EnvOf([variant |-> "static", GCLOUD_AUTH_TOKEN |-> <<GcloudToken>>,
                       TOKEN |-> <<>>], r, b, m, 1)
    /\ InitRest

SizingNext == InitContext \/ VuInitContext

SizingSpec == SizingInit /\ [][SizingNext]_vars

\* ------------------------------------------- runs with a ramp-up asked for
\* The runs of Spec started with RAMP_DURATION set to one second, as the
\* repository's runner scripts pass it with -e.  Neither script reads it.
RampInit ==
    /\ \E c \in Credentials, r \in 1..MaxRate, b \in 1..MaxBatch,
          m \in 1..MaxMinVus, d \in 1..MaxDuration :
          /\ r * d <= MaxTicks
          /\ env = [EnvOf(c, <<r>>, <<b>>, <<m>>, d) EXCEPT
                       !.RAMP_DURATION = <<1>>]
    /\ InitRest

RampSpec == RampInit /\ [][Next]_vars


\* ------------------------------------------------------------- properties
Valid == TARGET_RPS >= 1 /\ BATCH_SIZE >= 1 /\ MIN_VUS >= 1

\* C1: for every configuration with targetRate >= 1, batchSize >= 1 and
\* minWorkers >= 1, maxWorkers >= preallocated >= minWorkers.
C1_SizingOrdered ==
    (phase # "init" /\ Valid) =>
        /\ options.maxVUs >= options.preAllocatedVUs
        /\ options.preAllocatedVUs >= MIN_VUS

C1_Witness ==
    /\ phase # "init" /\ Valid
    /\ options.maxVUs > options.preAllocatedVUs
    /\ options.preAllocatedVUs > MIN_VUS

\* n >= a / b, for integers n, a and b # 0.
AtLeastQuotient(n, a, b) == IF b > 0 THEN n * b >= a ELSE n * b <= a

\* x = max(m, ceil(a / b)): x is at least both, and is m or the least
\* integer that is at least a / b.
IsMaxWithCeil(x, m, a, b) ==
    /\ x >= m
    /\ AtLeastQuotient(x, a, b)
    /\ (x = m \/ ~AtLeastQuotient(x - 1, a, b))

\* C2: preallocated = max(minWorkers, ceil(targetRate / (batchSize * 2))) and
\* maxWorkers = max(minWorkers * 2, ceil(targetRate / batchSize)) after every
\* evaluation of the sizing, and evaluating it again changes neither the
\* sizing nor any other state.
C2_SizingPure ==
    /\ [](phase # "init" =>
            /\ IsMaxWithCeil(options.preAllocatedVUs, MIN_VUS, TARGET_RPS,
                             BATCH_SIZE * 2)
            /\ IsMaxWithCeil(options.maxVUs, MIN_VUS * 2, TARGET_RPS,
                             BATCH_SIZE))
    /\ [][(evals >= 1 /\ evals' = evals + 1) =>
            /\ options' = options
            /\ UNCHANGED <<env, phase, setupData, setupProbe, allocated, ticks,
                           started, inflight, metricVars, tokenFetches,
                           publishCalls, history, interrupted, bearers,
                           summary, report>>]_vars

C2_Witness ==
    /\ evals >= 2
    /\ options.preAllocatedVUs > MIN_VUS
    /\ options.preAllocatedVUs * BATCH_SIZE * 2 > TARGET_RPS
    /\ options.maxVUs > MIN_VUS * 2
    /\ options.maxVUs * BATCH_SIZE > TARGET_RPS

\* C3: messagesSent has grown by exactly batchSize for each successful
\* operation that has recorded its outcome and by 0 for every other, in
\* every interleaving of the workers.
C3_SentByBatch ==
    messagesSent = BATCH_SIZE * (history["accepted"] - inflight["countT"])

C3_Witness ==
    /\ BATCH_SIZE = 2
    /\ messagesSent = 2
    /\ Rejected > 0
    /\ failedPublishes > 0
    /\ inflight["post"] > 0
    /\ inflight["countT"] = 0 /\ inflight["countF"] = 0

\* C4: a publish attempt counts as successful exactly when the response is
\* 200 and its body parses and carries a non-empty list of message ids: a
\* 200 with a body that does not, and a non-200 with a list, are failures.
C4_SuccessIffBothChecks ==
    /\ pubSuccessRate.trues = history["accepted"]
    /\ pubSuccessRate.total = history["accepted"] + Rejected

C4_Witness ==
    /\ history["accepted"] > 0
    /\ history["badBody200"] > 0
    /\ history["listNon200"] > 0

InitialMetrics ==
    /\ pubSuccessRate = NoRate
    /\ pubLatency = [d \in TransportDelays |-> 0]
    /\ failedPublishes = 0
    /\ messagesSent = 0
    /\ messageBytes = 0
    /\ currentRPS = NoRate

\* C5: if the setup probe returns a status other than 200, no operation is
\* dispatched, no publish call is issued, every metric keeps its initial
\* value and the report is the 'connection unsuccessful' one.
C5_ProbeFailureSkipsRun ==
    (setupProbe # <<>> /\ setupProbe[1] # 200) =>
        /\ started = 0
        /\ publishCalls = 0
        /\ InitialMetrics
        /\ (phase = "done" => report = "connection_issues")

CleanRun ==
    /\ phase = "done"
    /\ setupProbe = <<200>>
    /\ history["tokenDenied"] = 0
    /\ Rejected = 0
    /\ started = ticks
    /\ interrupted = 0

C8_RateOverAllOperations ==
    (InFlight = 0 /\ started - interrupted > 0) =>
        /\ pubSuccessRate.total > 0
        /\ pubSuccessRate.trues <= pubSuccessRate.total
        /\ pubSuccessRate.trues * (started - interrupted)
              = history["accepted"] * pubSuccessRate.total

\* C9: the number of operations in flight, and of VUs, never exceeds maxVUs.
C9_PoolBounded ==
    phase \in {"run", "teardown", "done"} =>
        /\ InFlight <= options.maxVUs
        /\ allocated <= options.maxVUs

C9_Witness ==
    /\ phase = "run"
    /\ InFlight = options.maxVUs
    /\ ticks < TotalTicks

\* C11: once the duration is over no further operation is started, and
\* teardown starts only when no operation is in flight any more, each one
\* having completed or having been cut off at the end of the graceful stop.
C11_StopThenTeardown ==
    /\ [][ticks = TotalTicks => started' = started]_vars
    /\ [][(phase = "run" /\ phase' = "teardown") =>
              (ticks = TotalTicks /\ InFlight = 0)]_vars
    /\ [](phase \in {"teardown", "done"} =>
              (ticks = TotalTicks /\ InFlight = 0))

C11_Witness ==
    /\ phase = "teardown"
    /\ interrupted > 0
    /\ started > interrupted

\* The token requests of the run's iterations that were denied: all the
\* denied ones but the one of setup().
RunDenied ==
    history["tokenDenied"]
    - (IF NeedsFetch /\ phase \in {"run", "teardown", "done"}
          /\ setupProbe = <<>>
       THEN 1 ELSE 0)

\* C12: every operation cut off when the graceful stop runs out is counted
\* in the failure counter, next to the failures that were recorded when
\* their response came.
C12_ShutdownCounted ==
    (InFlight = 0 /\ interrupted > 0) =>
        failedPublishes = RunDenied + Rejected + interrupted

\* C13: in the static variant with GCLOUD_AUTH_TOKEN absent the run is
\* aborted in the init context: setup() never runs, no probe and no publish
\* call is issued, no operation starts and every metric keeps its initial
\* value.
C13_NoTokenAborts ==
    (env.variant = "static" /\ env.GCLOUD_AUTH_TOKEN = <<>>) =>
        /\ phase \in {"init", "aborted"}
        /\ setupData = <<>>
        /\ setupProbe = <<>>
        /\ bearers = {}
        /\ started = 0
        /\ publishCalls = 0
        /\ InitialMetrics

C13_Witness ==
    /\ env.variant = "static"
    /\ env.GCLOUD_AUTH_TOKEN = <<>>
    /\ phase = "aborted"

\* C14: a configuration whose target rate or batch size is given as zero is
\* rejected in the init context: the init context does not complete and no
\* options are computed from a value put in its place.
C14_ZeroRejected ==
    (env.TARGET_RPS = <<0>> \/ env.BATCH_SIZE = <<0>>) =>
        /\ phase \in {"init", "aborted"}
        /\ options = [preAllocatedVUs |-> 0, maxVUs |-> 0]

\* C15: in the dynamic variant with the TOKEN override set, no token
\* request is ever issued, and every acquisition, in setup() and in each
\* operation, yields the override: the probe and every publish call are
\* sent with it, and every started operation issues its publish call.
C15_OverrideNoFetch ==
    (env.variant = "dynamic" /\ env.TOKEN # <<>>) =>
        /\ tokenFetches = 0
        /\ inflight["token"] = 0
        /\ history["tokenGranted"] + history["tokenDenied"] = 0
        /\ bearers \subseteq {env.TOKEN[1]}
        /\ (phase \in {"run", "teardown", "done"} => setupProbe # <<>>)
        /\ publishCalls = started

C15_Witness ==
    /\ env.variant = "dynamic"
    /\ env.TOKEN # <<>>
    /\ phase = "done"
    /\ started >= 2
    /\ bearers = {env.TOKEN[1]}

\* C16: without an override every acquisition issues exactly one token
\* request (one for setup(), one for each started operation, none issued
\* again); a request answered 200 with a token yields that token, which the
\* caller sends in its next call; any other answer (another status, a failed
\* request, a body that does not parse or has no token) yields no
\* credential, and the caller goes on: setup() returns its result and the
\* operation ends as a recorded failure.
C16_SingleFetch ==
    NeedsFetch =>
        /\ tokenFetches
              = started + (IF phase \in {"run", "teardown", "done"} THEN 1 ELSE 0)
        /\ bearers \subseteq {"fetched"}
        /\ history["tokenGranted"]
              = publishCalls + (IF setupProbe # <<>> THEN 1 ELSE 0)
        /\ failedPublishes = RunDenied + Rejected - inflight["countF"]
        /\ (phase \in {"run", "teardown", "done"} => setupData # <<>>)

C16_Witness ==
    /\ NeedsFetch
    /\ phase = "done"
    /\ setupProbe # <<>>
    /\ publishCalls >= 1
    /\ RunDenied >= 1

\* C17: every operation that has failed, at the credential or at the
\* publish call (a failed request, a status other than 200, a body that
\* fails the check), is counted in failedPublishes, the publish failures
\* also in the success rate; its VU is free again; and the run goes on:
\* while ticks are due the executor takes them, on a free VU if there is
\* one, and the run leaves its running phase only when the duration is over.
C17_FailureRecordedRunGoesOn ==
    /\ failedPublishes = RunDenied + Rejected - inflight["countF"]
    /\ pubSuccessRate.total - pubSuccessRate.trues = Rejected
    /\ InFlight = started - interrupted - failedPublishes
                  - (history["accepted"] - inflight["countT"])
    /\ (started > 0 /\ ticks < TotalTicks) => phase = "run"
    /\ (phase = "run" /\ ticks < TotalTicks) => ENABLED (Dispatch \/ DropTick)
    /\ (phase = "run" /\ ticks < TotalTicks /\ InFlight < allocated) =>
           ENABLED Dispatch
    /\ phase \in {"teardown", "done"} => ticks = TotalTicks

C17_Witness ==
    /\ phase = "done"
    /\ allocated = 1
    /\ started = TotalTicks
    /\ started >= 3
    /\ RunDenied >= 1
    /\ Rejected >= 1

\* C18: an operation starts only after setup() has returned; teardown() is
\* entered from the running phase only, with no operation in flight, and the
\* run never returns to the running phase, so it is entered at most once;
\* from its entry on no operation starts and no metric changes; it prints
\* once, and nothing changes after it.
C18_LifecycleOrder ==
    /\ [][started' > started => (phase = "run" /\ setupData # <<>>)]_vars
    /\ [][(phase # "teardown" /\ phase' = "teardown") =>
              (phase = "run" /\ InFlight = 0 /\ report = ""
               /\ summary = NoSummary)]_vars
    /\ [][(phase \in {"teardown", "done"}) =>
              (phase' \in {"teardown", "done"} /\ InFlight = 0
               /\ started' = started /\ UNCHANGED metricVars)]_vars
    /\ [][report' # report => (phase = "teardown" /\ phase' = "done")]_vars
    /\ [][phase = "done" => UNCHANGED vars]_vars
    /\ []((phase = "run" /\ ticks = TotalTicks /\ InFlight = 0) =>
              ENABLED TeardownStart)

C18_Witness ==
    /\ phase = "done"
    /\ report = "summary"
    /\ messagesSent > 0
    /\ failedPublishes > 0

\* C19: when the run has ended, the counters and rates are determined by
\* the multiset of the operations' outcomes alone (so many accepted, so many
\* rejected, so many denied a token), whatever the order in which the VUs'
\* updates were applied.
C19_OrderIndependent ==
    (phase \in {"teardown", "done"}) =>
        /\ messagesSent = BATCH_SIZE * history["accepted"]
        /\ failedPublishes = RunDenied + Rejected
        /\ pubSuccessRate
              = [trues |-> history["accepted"],
                 total |-> history["accepted"] + Rejected]
        /\ currentRPS
              = [trues |-> history["accepted"], total |-> history["accepted"]]

C19_Witness ==
    /\ phase = "done"
    /\ history["accepted"] >= 1
    /\ Rejected >= 1
    /\ RunDenied >= 1
    /\ allocated >= 2

\* C20: every statistic teardown() has read so far still equals the metric
\* it was read from, so that all the statistics of the summary are values of
\* one and the same metrics state: no VU updates a metric between two reads.
C20_ConsistentSnapshot ==
    \A s \in Statistics :
        summary[s] # <<>> => summary[s] = <<ReadMetric(s)>>

C20_Witness ==
    /\ phase = "teardown"
    /\ Unread = {}
    /\ summary["messagesSent"] # <<0>>
    /\ summary["failedPublishes"] # <<0>>

\* C21: no step of the run, from the init context to the end of teardown,
\* decreases messagesSent or failedPublishes.
C21_CountersMonotone ==
    [][messagesSent' >= messagesSent /\ failedPublishes' >= failedPublishes]_vars

C21_Witness ==
    /\ phase = "run"
    /\ messagesSent >= 2 * BATCH_SIZE
    /\ failedPublishes >= 1
    /\ InFlight >= 1

\* The number of latency samples recorded.
LatencySamples == TrendCount(pubLatency, DOMAIN pubLatency)

\* C22: when teardown has run after a successful setup and no publish call
\* was answered (no success-rate observation, no latency sample), the
\* summary is printed and the success rate, the average latency and the p95
\* latency are each rendered as "N/A".
C22_EmptyRenderedNA ==
    (/\ phase = "done"
     /\ setupData[1].connectionSuccessful
     /\ pubSuccessRate.total = 0
     /\ LatencySamples = 0) =>
        /\ report = "summary"
        /\ figures["pubSuccessRate"] = NotAvailable
        /\ figures["avgLatency"] = NotAvailable
        /\ figures["p95Latency"] = NotAvailable

\* The samples of a trend that are at least x.
CountAtLeast(t, x) == TrendCount(t, {v \in DOMAIN t : v >= x})

\* C23: no latency sample is negative; there is exactly one sample for each
\* publish call that has been answered, whether its check passed or failed;
\* and the samples are at least the delays of those calls (for every x, as
\* many samples as delays are >= x).
C23_LatencyPerCall ==
    /\ \A v \in DOMAIN pubLatency : pubLatency[v] > 0 => v >= 0
    /\ LatencySamples = history["accepted"] + Rejected
    /\ LatencySamples = TrendCount(transport, DOMAIN transport)
    /\ \A x \in TransportDelays :
           CountAtLeast(pubLatency, x) >= CountAtLeast(transport, x)
    /\ ~NeedsFetch =>
           publishCalls = LatencySamples + inflight["post"] + interrupted

C23_Witness ==
    /\ history["accepted"] >= 1
    /\ Rejected >= 1
    /\ pubLatency[5] >= 1
    /\ pubLatency[20] >= 1

\* C25: in a run with a ramp-up window the rate offered during the window
\* stays below the target rate, so the iterations that have come due stay
\* fewer than target rate times duration.
C25_RampBelowTarget ==
    env.RAMP_DURATION # <<>> => ticks < TARGET_RPS * TEST_DURATION

\* A run with a configured token: the static variant with its token, or the
\* dynamic variant with the same token as its override.
TokenConfigured ==
    \/ env.variant = "static" /\ env.GCLOUD_AUTH_TOKEN = <<GcloudToken>>
    \/ env.variant = "dynamic" /\ env.TOKEN = <<GcloudToken>>

C27_BatchOfOnePayload ==
    /\ generated = started
    /\ publishCalls = 0 => lastBatch = <<>>
    /\ publishCalls > 0 =>
           /\ Len(lastBatch) = BATCH_SIZE
           /\ \A i \in 1..Len(lastBatch) :
                  /\ lastBatch[i].data
                        = B64Encode(JsonStringify(Message(publishCalls)))
                  /\ lastBatch[i].attributes = [test_type |-> "soak_test"]

C27_Witness ==
    /\ BATCH_SIZE = 2
    /\ publishCalls >= 2
    /\ Len(lastBatch) = 2
    /\ lastBatch[1] = lastBatch[2]

\* C28: an operation that completes (leaves its VU without having been cut
\* off) updates exactly one of the two counters, messagesSent by BATCH_SIZE
\* or failedPublishes by 1; the counters change at no other step; hence
\* whenever no operation is in flight, messagesSent / BATCH_SIZE +
\* failedPublishes is the number of operations that completed.
C28_OneCounterPerOperation ==
    /\ [][(InFlight' < InFlight /\ interrupted' = interrupted) =>
              \/ /\ messagesSent' = messagesSent + BATCH_SIZE
                 /\ failedPublishes' = failedPublishes
              \/ /\ messagesSent' = messagesSent
                 /\ failedPublishes' = failedPublishes + 1]_vars
    /\ [][(messagesSent' # messagesSent
           \/ failedPublishes' # failedPublishes) =>
              (InFlight' = InFlight - 1 /\ interrupted' = interrupted)]_vars
    /\ [](InFlight = 0 =>
              messagesSent
                 = BATCH_SIZE * (started - interrupted - failedPublishes))

C28_Witness ==
    /\ InFlight = 0
    /\ interrupted = 0
    /\ started >= 3
    /\ messagesSent >= BATCH_SIZE
    /\ RunDenied >= 1
    /\ Rejected >= 1

\* C29: whenever no operation is in flight, the false observations of the
\* success rate are as many as failedPublishes and the true ones as many as
\* messagesSent / BATCH_SIZE: one observation for every completed operation.
C29_OneObservationPerOperation ==
    InFlight = 0 =>
        /\ pubSuccessRate.total - pubSuccessRate.trues = failedPublishes
        /\ pubSuccessRate.trues * BATCH_SIZE = messagesSent

====
